---- MODULE Spec2Model ----
(***************************************************************************)
(* Model of the strategy core and the task manager of GXWeb v2.0:          *)
(*   backend/strategy/backtest.py      BacktestEngine                      *)
(*   backend/strategy/risk_control.py  RiskController                      *)
(*   backend/strategy/paper_trading.py PaperTrader                         *)
(*   backend/strategy/optimizer.py     ParameterOptimizer                  *)
(*   backend/task_manager.py           TaskManager                         *)
(*                                                                         *)
(* Numbers.  Python floats are modelled by exact integers and fractions:   *)
(* stop_loss / take_profit are integer percentages (5 stands for 0.05),    *)
(* ratios are records [num, den], paper-trading money is counted in cents. *)
(* The input sets below are chosen so that the double-precision results    *)
(* of the source agree with the exact ones on every comparison made.       *)
(* A timestamp is the 1-based index of the bar in the series.              *)
(***************************************************************************)
EXTENDS Integers, Sequences, FiniteSets, TLC

VARIABLES
    engine,     \* BacktestEngine fields: initial_capital, capital, positions, trades, portfolio_value
    pc,         \* position of the run_backtest call: "idle", "running", "returned", "raised"
    strategy,   \* argument of run_backtest: mapping from a subset of {"stop_loss","take_profit"} to percent
    price_data, \* argument of run_backtest: sequence of bars
    i,          \* index of the next bar of the for loop
    position,   \* local variable `position` of run_backtest: <<>> while unbound, else <<Position>>
    result,     \* outcome of the last run_backtest call
    before,       \* history: how the engine's previous run_backtest call ended
    trader,     \* PaperTrader fields: cash, positions, orders, trades
    risk,       \* RiskController fields: initial_capital, current_capital, daily_pnl, positions
    ret,        \* return value of the last PaperTrader or RiskController call
    checked,    \* history: the last check_risk call of the controller's client, and
                \* whether update_position has been called since
    opt,        \* the ParameterOptimizer call: operation, arguments, loop position,
                \* results so far, the backtests run so far (history), return value
    tm,         \* TaskManager: the dict `tasks` and the content of the file at db_path
    called      \* the last TaskManager call: operation, task id passed, value returned

vars == <<engine, pc, strategy, price_data, i, position, result, before, trader, risk, ret,
          checked, opt, tm, called>>

btvars == <<engine, pc, strategy, price_data, i, position, result, before, opt>>
ptvars == <<trader, risk, ret, checked>>
tmvars == <<tm, called>>

----------------------------------------------------------------------------
(* Bounds and input sets *)

MaxBars == 3

DefaultCapital == 100000
DefaultStopLoss == 5
DefaultTakeProfit == 10
DefaultSymbol == "SH600000"

\* a bar carries its price under "close", under "Close", or not at all
Bar(k, v) == [key |-> k, value |-> v]

\* the series replayed by run_backtest: a skipped bar (0), the bars of the
\* stop-loss scenario (100, 94), a price too high to buy one share (60000),
\* and a bar that spells its price "Close"
Bars == {Bar("close", 0), Bar("close", 94), Bar("close", 100), Bar("close", 60000),
         Bar("Close", 100)}

Percents == {0, 5, 10}

\* every strategy config over the two keys the engine reads
AllStrategies == UNION { [keys -> Percents] : keys \in SUBSET {"stop_loss", "take_profit"} }

NoStrategy == [k \in {} |-> 0]

\* the configs passed to run_backtest
Strategies == {NoStrategy,
               [stop_loss |-> 5, take_profit |-> 10],
               [stop_loss |-> 0, take_profit |-> 0]}

RECURSIVE SeqsUpTo(_, _)
SeqsUpTo(S, n) ==
    IF n = 0 THEN {<<>>}
    ELSE LET shorter == SeqsUpTo(S, n - 1)
         IN  shorter \cup { Append(s, x) : s \in {t \in shorter : Len(t) = n - 1}, x \in S }

PriceSeries == SeqsUpTo(Bars, MaxBars)

----------------------------------------------------------------------------
(* Fractions *)

Ratio(n, d) == [num |-> n, den |-> d]
Zero == Ratio(0, 1)
RatioLess(a, b) == a.num * b.den < b.num * a.den

----------------------------------------------------------------------------
(* BacktestEngine *)

\* BacktestEngine.__init__
NewEngine(initial_capital) ==
    [initial_capital |-> initial_capital,
     capital         |-> initial_capital,
     positions       |-> <<>>,
     trades          |-> <<>>,
     portfolio_value |-> <<>>]

\* the mutable state of one run: the engine, the local `position`, the pending exception
RunState(e, p) == [engine |-> e, position |-> p, error |-> ""]

\* price = bar.get("close", bar.get("Close", 0))
BarPrice(bar) == IF bar.key \in {"close", "Close"} THEN bar.value ELSE 0

\* current_price = bar.get("close", 0)   (in _should_exit)
BarClose(bar) == IF bar.key = "close" THEN bar.value ELSE 0

\* strategy.get(key, default)
StrategyGet(strat, key, default) == IF key \in DOMAIN strat THEN strat[key] ELSE default

\* _should_entry
ShouldEntry(strat, bar) == TRUE

\* _should_exit with strict comparisons (mutant for C4)
ShouldExitStrict(strat, bar, pos) ==
    LET current_price == BarClose(bar) IN
    \/ pos.stop_loss > 0 /\ current_price * 100 < pos.entry_price * (100 - pos.stop_loss)
    \/ pos.take_profit > 0 /\ current_price * 100 > pos.entry_price * (100 + pos.take_profit)

\* _should_exit, with the percentages cleared of their denominators
ShouldExit(strat, bar, pos) ==
    LET current_price == BarClose(bar) IN
    \/ pos.stop_loss > 0 /\ current_price * 100 <= pos.entry_price * (100 - pos.stop_loss)
    \/ pos.take_profit > 0 /\ current_price * 100 >= pos.entry_price * (100 + pos.take_profit)

\* a quantity that spends the whole capital (mutant for C24)
EntryQuantityAll(capital, price) == capital \div price

\* quantity = int(self.capital * 0.5 / price), for capital >= 0 and price > 0
EntryQuantity(capital, price) == capital \div (2 * price)

\* _entry_position
EntryPosition(st, symbol, price, timestamp, strat) ==
    LET quantity == EntryQuantity(st.engine.capital, price) IN
    IF quantity <= 0 THEN st
    ELSE [st EXCEPT
            !.engine.trades = Append(@, [timestamp |-> timestamp, action |-> "buy",
                                         price |-> price, quantity |-> quantity,
                                         commission |-> 0]),
            !.engine.capital = @ - price * quantity,
            !.engine.positions = Append(@, [symbol |-> symbol,
                                            quantity |-> quantity,
                                            entry_price |-> price,
                                            entry_time |-> timestamp,
                                            stop_loss |-> StrategyGet(strat, "stop_loss", DefaultStopLoss),
                                            take_profit |-> StrategyGet(strat, "take_profit", DefaultTakeProfit)])]

\* _exit_position
ExitPosition(st, pos, price, timestamp) ==
    [st EXCEPT
        !.engine.trades = Append(@, [timestamp |-> timestamp, action |-> "sell",
                                     price |-> price, quantity |-> pos.quantity,
                                     commission |-> 0]),
        !.engine.capital = @ + price * pos.quantity,
        !.engine.positions = <<>>]

\* _calculate_position_value
CalculatePositionValue(pos, current_price) == pos.quantity * current_price

\* lines 97-106 with `if` in place of `elif`: the exit check also runs on the
\* bar that opened the position (mutant for C23)
EntryOrExitSameBar(st, strat, bar, timestamp) ==
    LET price   == BarPrice(bar)
        entered == IF st.engine.positions = <<>> /\ ShouldEntry(strat, bar)
                   THEN EntryPosition(st, DefaultSymbol, price, timestamp, strat)
                   ELSE st
    IN  IF entered.engine.positions = <<>> THEN entered
        ELSE LET pos  == entered.engine.positions[1]
                 held == [entered EXCEPT !.position = <<pos>>]
             IN  IF ShouldExit(strat, bar, pos)
                 THEN ExitPosition(held, pos, price, timestamp)
                 ELSE held

\* lines 97-106 of the loop body: entry when flat, exit check when in position
EntryOrExit(st, strat, bar, timestamp) ==
    LET price == BarPrice(bar) IN
    IF st.engine.positions = <<>>
    THEN IF ShouldEntry(strat, bar)
         THEN EntryPosition(st, DefaultSymbol, price, timestamp, strat)
         ELSE st
    ELSE LET pos  == st.engine.positions[1]
             held == [st EXCEPT !.position = <<pos>>]
         IN  IF ShouldExit(strat, bar, pos)
             THEN ExitPosition(held, pos, price, timestamp)
             ELSE held

\* lines 108-113: the snapshot reads the local `position`, which is bound only
\* by the exit branch of this or an earlier iteration
RecordValue(st, bar, timestamp) ==
    LET price == BarPrice(bar) IN
    IF st.engine.positions # <<>> /\ st.position = <<>>
    THEN [st EXCEPT !.error = "UnboundLocalError"]
    ELSE LET position_value == IF st.engine.positions # <<>>
                               THEN CalculatePositionValue(st.position[1], price)
                               ELSE 0
         IN  [st EXCEPT !.engine.portfolio_value =
                    Append(@, [timestamp |-> timestamp,
                               value |-> st.engine.capital + position_value])]

\* one iteration of `for bar in price_data`
BarStep(st, strat, bar, timestamp) ==
    IF BarPrice(bar) <= 0 THEN st
    ELSE RecordValue(EntryOrExit(st, strat, bar, timestamp), bar, timestamp)

\* _calculate_max_drawdown measuring from the first value only: the peak is
\* never advanced (mutant for C21)
RECURSIVE DrawdownFromFirst(_, _, _, _)
DrawdownFromFirst(curve, k, peak, max_dd) ==
    IF k > Len(curve) THEN max_dd
    ELSE LET value == curve[k].value
             dd    == IF peak > 0 THEN Ratio(peak - value, peak) ELSE Zero
         IN  DrawdownFromFirst(curve, k + 1, peak, IF RatioLess(max_dd, dd) THEN dd ELSE max_dd)

\* _calculate_max_drawdown
RECURSIVE DrawdownFrom(_, _, _, _)
DrawdownFrom(curve, k, peak, max_dd) ==
    IF k > Len(curve) THEN max_dd
    ELSE LET value == curve[k].value
             peak2 == IF value > peak THEN value ELSE peak
             dd    == IF peak2 > 0 THEN Ratio(peak2 - value, peak2) ELSE Zero
         IN  DrawdownFrom(curve, k + 1, peak2, IF RatioLess(max_dd, dd) THEN dd ELSE max_dd)

CalculateMaxDrawdown(curve) ==
    IF curve = <<>> THEN Zero ELSE DrawdownFrom(curve, 1, curve[1].value, Zero)

\* the bar-over-bar returns fed to numpy by _calculate_sharpe_ratio
RECURSIVE ReturnsFrom(_, _)
ReturnsFrom(curve, k) ==
    IF k > Len(curve) THEN <<>>
    ELSE LET prev == curve[k - 1].value
             curr == curve[k].value
             rest == ReturnsFrom(curve, k + 1)
         IN  IF prev > 0 THEN <<Ratio(curr - prev, prev)>> \o rest ELSE rest

\* _calculate_sharpe_ratio: 0 in the degenerate cases (fewer than two snapshots,
\* no return, zero deviation); otherwise mean/std*sqrt(252) of the returns, kept
\* as the sequence of returns it is computed from
CalculateSharpeRatio(curve) ==
    LET returns == IF Len(curve) < 2 THEN <<>> ELSE ReturnsFrom(curve, 2) IN
    IF returns = <<>> THEN 0
    ELSE IF \A k \in 1..Len(returns) : returns[k].num * returns[1].den = returns[1].num * returns[k].den
         THEN 0
         ELSE returns

NoMetrics == [k \in {} |-> 0]

\* _calculate_metrics
CalculateMetrics(e) ==
    IF e.portfolio_value = <<>> THEN NoMetrics
    ELSE LET final_value  == e.portfolio_value[Len(e.portfolio_value)].value
             total_trades == Len(e.trades)
             winning      == Cardinality({k \in 1..Len(e.trades) : e.trades[k].action = "sell"})
         IN  [initial_capital |-> e.initial_capital,
              final_value     |-> final_value,
              total_return    |-> Ratio(final_value - e.initial_capital, e.initial_capital),
              total_trades    |-> total_trades,
              win_rate        |-> IF total_trades > 0 THEN Ratio(winning, total_trades) ELSE Zero,
              max_drawdown    |-> CalculateMaxDrawdown(e.portfolio_value),
              sharpe_ratio    |-> CalculateSharpeRatio(e.portfolio_value)]

NoResult == [kind |-> "none", error |-> "", trades |-> <<>>, portfolio_value |-> <<>>,
             metrics |-> NoMetrics]

Raised(err) == [NoResult EXCEPT !.kind = "raised", !.error = err]

\* lines 115-124: metrics, the log line that reads metrics['final_value'], the return value
Outcome(e) ==
    LET metrics == CalculateMetrics(e) IN
    IF "final_value" \notin DOMAIN metrics THEN Raised("KeyError")
    ELSE [kind |-> "returned", error |-> "", trades |-> e.trades,
          portfolio_value |-> e.portfolio_value, metrics |-> metrics]

\* a reset that forgets to clear the positions (mutant for C7)
ResetEngineKeepsPositions(e) ==
    [e EXCEPT !.capital = e.initial_capital,
              !.trades = <<>>,
              !.portfolio_value = <<>>]

\* lines 83-87: reset of the engine state
ResetEngine(e) ==
    [e EXCEPT !.capital = e.initial_capital,
              !.positions = <<>>,
              !.trades = <<>>,
              !.portfolio_value = <<>>]

----------------------------------------------------------------------------
(* run_backtest as a process: call, one step per bar, return or raise *)

NoTasks == [id \in {} |-> 0]

NoCall == [op |-> "init", task_id |-> 0, returned |-> FALSE]

\* no TaskManager constructed
IdleTasks ==
    /\ tm = [tasks |-> NoTasks, file |-> NoTasks]
    /\ called = NoCall

NoCheck == [args |-> <<>>, verdict |-> <<>>, fresh |-> FALSE]

IdlePaper ==
    /\ checked = NoCheck
    /\ trader = [cash |-> 0, positions |-> <<>>, orders |-> <<>>, trades |-> <<>>]
    /\ risk = [initial_capital |-> 0, current_capital |-> 0, daily_pnl |-> 0, positions |-> <<>>]
    /\ ret = [op |-> "init", order_id |-> 0, status |-> "", reason |-> ""]

NoBefore == [kind |-> "none", open |-> FALSE]

\* no optimizer call in progress
NoOpt == [op |-> "none", pc |-> "idle", args |-> <<>>, combinations |-> <<>>, k |-> 0,
          results |-> <<>>, runs |-> <<>>, best_params_list |-> <<>>,
          error |-> "", out |-> <<>>]

Init ==
    /\ engine = NewEngine(DefaultCapital)
    /\ pc = "idle"
    /\ strategy = NoStrategy
    /\ price_data = <<>>
    /\ i = 1
    /\ position = <<>>
    /\ result = NoResult
    /\ before = NoBefore
    /\ opt = NoOpt
    /\ IdlePaper
    /\ IdleTasks

\* run_backtest is called (also on an engine whose previous call returned or raised)
RunBacktest(strat, data) ==
    /\ pc # "running"
    /\ engine' = ResetEngine(engine)
    /\ pc' = "running"
    /\ strategy' = strat
    /\ price_data' = data
    /\ i' = 1
    /\ position' = <<>>
    /\ result' = NoResult
    /\ before' = [kind |-> result.kind, open |-> engine.positions # <<>>]
    /\ UNCHANGED opt
    /\ UNCHANGED ptvars
    /\ UNCHANGED tmvars

ProcessBar ==
    /\ pc = "running"
    /\ i <= Len(price_data)
    /\ LET st == BarStep(RunState(engine, position), strategy, price_data[i], i) IN
        /\ engine' = st.engine
        /\ position' = st.position
        /\ IF st.error # ""
           THEN pc' = "raised" /\ result' = Raised(st.error) /\ i' = i
           ELSE pc' = pc /\ result' = result /\ i' = i + 1
    /\ UNCHANGED <<strategy, price_data, before>>
    /\ UNCHANGED opt
    /\ UNCHANGED ptvars
    /\ UNCHANGED tmvars

Finish ==
    /\ pc = "running"
    /\ i > Len(price_data)
    /\ result' = Outcome(engine)
    /\ pc' = IF result'.kind = "raised" THEN "raised" ELSE "returned"
    /\ UNCHANGED <<engine, strategy, price_data, i, position, before>>
    /\ UNCHANGED opt
    /\ UNCHANGED ptvars
    /\ UNCHANGED tmvars

Next ==
    \/ \E strat \in Strategies, data \in PriceSeries : RunBacktest(strat, data)
    \/ ProcessBar
    \/ Finish

Spec == Init /\ [][Next]_vars

\* run_backtest on a freshly constructed engine, as one function of its arguments
RECURSIVE RunBars(_, _, _, _)
RunBars(st, strat, data, k) ==
    IF k > Len(data) \/ st.error # "" THEN st
    ELSE RunBars(BarStep(st, strat, data[k], k), strat, data, k + 1)

FreshRun(initial_capital, strat, data) ==
    LET st == RunBars(RunState(NewEngine(initial_capital), <<>>), strat, data, 1) IN
    [engine |-> st.engine,
     result |-> IF st.error # "" THEN Raised(st.error) ELSE Outcome(st.engine)]

----------------------------------------------------------------------------
(* The exit branch of the loop body (lines 102-106) on an engine that holds  *)
(* the position an entry creates: _should_exit, then _exit_position.         *)
(* price_data holds the bar the branch was last applied to.                  *)

EntryPrices == {94, 100}

ExitBars == {Bar("close", 90), Bar("close", 95), Bar("close", 96), Bar("close", 100),
             Bar("close", 105), Bar("close", 111), Bar("Close", 100)}

InitExit ==
    /\ \E e \in EntryPrices, strat \in AllStrategies :
          /\ strategy = strat
          /\ engine = EntryPosition(RunState(NewEngine(DefaultCapital), <<>>),
                                    DefaultSymbol, e, 1, strat).engine
    /\ pc = "holding"
    /\ price_data = <<>>
    /\ i = 2
    /\ position = <<>>
    /\ result = NoResult
    /\ before = NoBefore
    /\ opt = NoOpt
    /\ IdlePaper
    /\ IdleTasks

ExitCheck(bar) ==
    /\ pc = "holding"
    /\ engine.positions # <<>>
    /\ LET st == EntryOrExit(RunState(engine, position), strategy, bar, i) IN
        /\ engine' = st.engine
        /\ position' = st.position
        /\ pc' = IF st.engine.positions = <<>> THEN "flat" ELSE "holding"
    /\ price_data' = <<bar>>
    /\ UNCHANGED <<strategy, i, result, before>>
    /\ UNCHANGED opt
    /\ UNCHANGED ptvars
    /\ UNCHANGED tmvars

NextExit == \E bar \in ExitBars : ExitCheck(bar)

SpecExit == InitExit /\ [][NextExit]_vars

----------------------------------------------------------------------------
(* RiskController *)

MaxOrders == 2

InitialCash == 100000
RiskCapital == 100000
MaxPositionPct == 25
MaxDailyLossPct == 5
MaxTotalLossPct == 20
CommissionPer10000 == 3

Symbols == {"A", "B"}
Actions == {"buy", "sell"}
Quotes == {95, 100, 500}

\* the orders submitted: a large market order (24000 at its price of 100), a
\* small limit order at 100 (2000) and a small limit order at 90, below every quote.
\* Every quantity * price is a multiple of 100, so that commissions are whole cents.
SmallLimit == [quantity |-> 20, price |-> 100, order_type |-> "limit"]

OrderShapes == {[quantity |-> 240, price |-> 100, order_type |-> "market"],
                SmallLimit,
                [quantity |-> 20,  price |-> 90,  order_type |-> "limit"]}

\* an order of quantity 0, the quantity calculate_position_size returns when
\* capital is insufficient
ZeroOrder == [quantity |-> 0, price |-> 100, order_type |-> "market"]

RECURSIVE GCD(_, _)
GCD(a, b) == IF b = 0 THEN a ELSE GCD(b, a % b)

Abs(n) == IF n < 0 THEN -n ELSE n

\* n/d in lowest terms, d > 0
Reduce(n, d) ==
    LET g == GCD(Abs(n), d) IN
    IF n = 0 THEN Zero ELSE Ratio(n \div g, d \div g)

NoPositions == [s \in {} |-> 0]

Put(m, k, v) == [x \in DOMAIN m \cup {k} |-> IF x = k THEN v ELSE m[x]]
Del(m, k) == [x \in DOMAIN m \ {k} |-> m[x]]

RECURSIVE SumOver(_, _)
SumOver(f, S) ==
    IF S = {} THEN 0
    ELSE LET x == CHOOSE y \in S : TRUE IN f[x] + SumOver(f, S \ {x})

\* RiskController.__init__ with its default limits
NewRiskController ==
    [max_position_pct   |-> MaxPositionPct,
     max_daily_loss_pct |-> MaxDailyLossPct,
     max_total_loss_pct |-> MaxTotalLossPct,
     initial_capital    |-> RiskCapital,
     current_capital    |-> RiskCapital,
     daily_pnl          |-> 0,
     positions          |-> NoPositions]

\* _get_position_value: quantity times current_capital
GetPositionValue(rc, symbol) ==
    IF symbol \notin DOMAIN rc.positions THEN 0
    ELSE rc.positions[symbol].quantity * rc.current_capital

\* _get_total_exposure: sum of quantity times current_capital
GetTotalExposure(rc) ==
    SumOver([s \in DOMAIN rc.positions |-> rc.positions[s].quantity * rc.current_capital],
            DOMAIN rc.positions)

Verdict(allowed, reason, level) == [allowed |-> allowed, reason |-> reason, risk_level |-> level]

\* check_risk with the exposure test moved in front of the loss tests
\* (mutant for C25)
CheckRiskExposureFirst(rc, symbol, action, quantity, price) ==
    LET position_value == GetPositionValue(rc, symbol)
        total_exposure == GetTotalExposure(rc)
        order_value    == IF action = "buy" THEN quantity * price ELSE 0
        new_exposure   == total_exposure + order_value
        limit          == (rc.max_position_pct * rc.current_capital) \div 100
    IN
    IF new_exposure > limit
    THEN Verdict(FALSE, "exposure", "high")
    ELSE IF rc.daily_pnl * 100 < -(rc.current_capital * rc.max_daily_loss_pct)
    THEN Verdict(FALSE, "daily_loss", "critical")
    ELSE IF (rc.initial_capital - rc.current_capital) * 100
                >= rc.max_total_loss_pct * rc.initial_capital
    THEN Verdict(FALSE, "total_loss", "critical")
    ELSE IF position_value + order_value > limit
    THEN Verdict(FALSE, "concentration", "medium")
    ELSE Verdict(TRUE, "", "low")

\* check_risk; the reasons are the tags of the four guards, "" when allowed.
\* x / capital > pct/100 is decided on integers as x > (pct * capital) \div 100.
CheckRisk(rc, symbol, action, quantity, price) ==
    LET position_value == GetPositionValue(rc, symbol)
        total_exposure == GetTotalExposure(rc)
        order_value    == IF action = "buy" THEN quantity * price ELSE 0
        new_exposure   == total_exposure + order_value
        limit          == (rc.max_position_pct * rc.current_capital) \div 100
    IN
    IF rc.daily_pnl * 100 < -(rc.current_capital * rc.max_daily_loss_pct)
    THEN Verdict(FALSE, "daily_loss", "critical")
    ELSE IF (rc.initial_capital - rc.current_capital) * 100
                >= rc.max_total_loss_pct * rc.initial_capital
    THEN Verdict(FALSE, "total_loss", "critical")
    ELSE IF new_exposure > limit
    THEN Verdict(FALSE, "exposure", "high")
    ELSE IF position_value + order_value > limit
    THEN Verdict(FALSE, "concentration", "medium")
    ELSE Verdict(TRUE, "", "low")

\* an update_position that also moves current_capital by the amount traded
\* (mutant for C27)
UpdatePositionTracksCapital(rc, symbol, action, quantity, price) ==
    LET held == IF symbol \in DOMAIN rc.positions THEN rc.positions[symbol]
                ELSE [quantity |-> 0, avg_price |-> Zero]
    IN
    IF action = "buy"
    THEN LET total_quantity == held.quantity + quantity
             avg == IF total_quantity > 0
                    THEN Reduce(held.quantity * held.avg_price.num
                                   + quantity * price * held.avg_price.den,
                                held.avg_price.den * total_quantity)
                    ELSE Zero
         IN  [rc EXCEPT !.positions =
                  Put(@, symbol, [quantity |-> total_quantity, avg_price |-> avg]),
                        !.current_capital = @ - quantity * price]
    ELSE IF action = "sell"
    THEN IF held.quantity - quantity <= 0
         THEN [rc EXCEPT !.positions = Del(@, symbol),
                         !.current_capital = @ + quantity * price]
         ELSE [rc EXCEPT !.positions =
                  Put(@, symbol, [held EXCEPT !.quantity = @ - quantity]),
                         !.current_capital = @ + quantity * price]
    ELSE [rc EXCEPT !.positions = Put(@, symbol, held)]

\* update_position
UpdatePosition(rc, symbol, action, quantity, price) ==
    LET held == IF symbol \in DOMAIN rc.positions THEN rc.positions[symbol]
                ELSE [quantity |-> 0, avg_price |-> Zero]
    IN
    IF action = "buy"
    THEN LET total_quantity == held.quantity + quantity
             avg == IF total_quantity > 0
                    THEN Reduce(held.quantity * held.avg_price.num
                                   + quantity * price * held.avg_price.den,
                                held.avg_price.den * total_quantity)
                    ELSE Zero
         IN  [rc EXCEPT !.positions =
                  Put(@, symbol, [quantity |-> total_quantity, avg_price |-> avg])]
    ELSE IF action = "sell"
    THEN IF held.quantity - quantity <= 0
         THEN [rc EXCEPT !.positions = Del(@, symbol)]
         ELSE [rc EXCEPT !.positions =
                  Put(@, symbol, [held EXCEPT !.quantity = @ - quantity])]
    ELSE [rc EXCEPT !.positions = Put(@, symbol, held)]

----------------------------------------------------------------------------
(* PaperTrader.  cash and commission are counted in cents.  An order id      *)
(* "order_k" is the number k, the empty id of a rejection is 0.              *)

\* PaperTrader.__init__
NewPaperTrader(initial_capital) ==
    [initial_capital |-> initial_capital,
     cash      |-> initial_capital * 100,
     positions |-> NoPositions,
     orders    |-> <<>>,
     trades    |-> <<>>]

PaperState(t, rc) == [trader |-> t, risk |-> rc, error |-> ""]

\* commission = fill_price * quantity * 0.0003, in cents
Commission(fill_price, quantity) == (fill_price * quantity * CommissionPer10000) \div 100

\* _fill_order
FillOrder(ps, k, fill_price) ==
    LET order      == ps.trader.orders[k]
        commission == Commission(fill_price, order.quantity)
        cost       == fill_price * order.quantity * 100 + commission
        booked     == [ps EXCEPT
                          !.trader.orders[k].status = "filled",
                          !.trader.trades = Append(@, [symbol |-> order.symbol,
                                                       action |-> order.action,
                                                       quantity |-> order.quantity,
                                                       price |-> fill_price,
                                                       commission |-> commission]),
                          !.trader.cash = IF order.action = "buy" THEN @ - cost ELSE @ + cost]
        positions  == booked.trader.positions
        mirrored(st) == [st EXCEPT !.risk = UpdatePosition(@, order.symbol, order.action,
                                                          order.quantity, fill_price)]
    IN
    IF order.action = "buy"
    THEN LET opened == IF order.symbol \in DOMAIN positions THEN positions
                       ELSE Put(positions, order.symbol, [quantity |-> 0, avg_price |-> Zero])
             pos       == opened[order.symbol]
             total_qty == pos.quantity + order.quantity
         IN  IF total_qty = 0
             THEN [booked EXCEPT !.trader.positions = opened, !.error = "ZeroDivisionError"]
             ELSE mirrored([booked EXCEPT !.trader.positions =
                      Put(opened, order.symbol,
                          [quantity  |-> total_qty,
                           avg_price |-> Reduce(pos.quantity * pos.avg_price.num
                                                   + order.quantity * fill_price * pos.avg_price.den,
                                                pos.avg_price.den * total_qty)])])
    ELSE IF order.symbol \in DOMAIN positions
         THEN LET left == positions[order.symbol].quantity - order.quantity IN
              mirrored([booked EXCEPT !.trader.positions =
                          IF left <= 0 THEN Del(positions, order.symbol)
                          ELSE Put(positions, order.symbol,
                                   [positions[order.symbol] EXCEPT !.quantity = left])])
         ELSE mirrored(booked)

\* current_prices.get(order.symbol, order.price)
CurrentPrice(current_prices, order) ==
    IF order.symbol \in DOMAIN current_prices THEN current_prices[order.symbol] ELSE order.price

\* the test of execute_orders on one pending order
Executed(order, current_price) ==
    IF order.order_type = "market" THEN TRUE
    ELSE IF order.action = "buy" THEN current_price <= order.price
    ELSE current_price >= order.price

\* the loop of execute_orders from order k on
RECURSIVE ExecuteFrom(_, _, _)
ExecuteFrom(ps, current_prices, k) ==
    IF k > Len(ps.trader.orders) \/ ps.error # "" THEN ps
    ELSE LET order == ps.trader.orders[k]
             current_price == CurrentPrice(current_prices, order)
         IN  IF order.status # "pending" THEN ExecuteFrom(ps, current_prices, k + 1)
             ELSE IF Executed(order, current_price)
                  THEN ExecuteFrom(FillOrder(ps, k, current_price), current_prices, k + 1)
                  ELSE ExecuteFrom(ps, current_prices, k + 1)

OrderInput(s, a, v) == [symbol |-> s, action |-> a, quantity |-> v.quantity,
                        price |-> v.price, order_type |-> v.order_type]

\* every shape on symbol A, the small limit order at 100 on symbol B, a buy of
\* quantity 0 on symbol A
OrderInputs == {OrderInput("A", a, v) : a \in Actions, v \in OrderShapes}
               \cup {OrderInput("B", a, SmallLimit) : a \in Actions}
               \cup {OrderInput("A", "buy", ZeroOrder)}

\* the quotes passed to execute_orders: any quote or none for A, 100 or none for B
PriceMaps == UNION { {m \in [syms -> Quotes] : "B" \in syms => m["B"] = 100} :
                        syms \in SUBSET Symbols }

\* the ids passed to cancel_order: "order_n", or a string that does not parse
----------------------------------------------------------------------------
(* The entry / exit decision of the loop body (lines 90-106) bar after bar,   *)
(* from the reset engine, without the snapshot of lines 108-113.              *)
(* price_data holds the bars decided so far.                                  *)

MaxLoopBars == 4

LoopBars == {Bar("close", 0), Bar("close", 95), Bar("close", 100), Bar("close", 111),
             Bar("Close", 100)}

InitLoop ==
    /\ engine = NewEngine(DefaultCapital)
    /\ strategy \in Strategies
    /\ pc = "flat"
    /\ price_data = <<>>
    /\ i = 1
    /\ position = <<>>
    /\ result = NoResult
    /\ before = NoBefore
    /\ opt = NoOpt
    /\ IdlePaper
    /\ IdleTasks

\* lines 90-106 for one bar
Decide(bar) ==
    /\ i <= MaxLoopBars
    /\ LET st == IF BarPrice(bar) <= 0
                 THEN RunState(engine, position)
                 ELSE EntryOrExit(RunState(engine, position), strategy, bar, i)
       IN  /\ engine' = st.engine
           /\ position' = st.position
           /\ pc' = IF st.engine.positions = <<>> THEN "flat" ELSE "holding"
    /\ price_data' = Append(price_data, bar)
    /\ i' = i + 1
    /\ UNCHANGED <<strategy, result, before>>
    /\ UNCHANGED opt
    /\ UNCHANGED ptvars
    /\ UNCHANGED tmvars

NextLoop == \E bar \in LoopBars : Decide(bar)

SpecLoop == InitLoop /\ [][NextLoop]_vars

----------------------------------------------------------------------------
(* _calculate_metrics on an engine whose loop has recorded a curve of         *)
(* non-negative values (capital and position value are never negative).      *)

MaxSnapshots == 3

\* BacktestEngine(1000): small amounts keep the cross-multiplied fractions
\* within the checker's integers
SmallCapital == 1000

CurveValues == {0, 500, 1000, 1200}

\* the snapshots the loop appends (lines 110-113), timestamped by bar index
Snapshots(values) == [k \in 1..Len(values) |-> [timestamp |-> k, value |-> values[k]]]

InitMetrics ==
    /\ \E values \in SeqsUpTo(CurveValues, MaxSnapshots) :
          engine = [NewEngine(SmallCapital) EXCEPT !.portfolio_value = Snapshots(values)]
    /\ pc = "recorded"
    /\ strategy = NoStrategy
    /\ price_data = <<>>
    /\ i = 1
    /\ position = <<>>
    /\ result = NoResult
    /\ before = NoBefore
    /\ opt = NoOpt
    /\ IdlePaper
    /\ IdleTasks

\* metrics = self._calculate_metrics()   (line 116)
CalculateMetricsCall ==
    /\ pc = "recorded"
    /\ result' = [NoResult EXCEPT !.kind = "measured", !.metrics = CalculateMetrics(engine)]
    /\ pc' = "measured"
    /\ UNCHANGED <<engine, strategy, price_data, i, position, before>>
    /\ UNCHANGED opt
    /\ UNCHANGED ptvars
    /\ UNCHANGED tmvars

NextMetrics == CalculateMetricsCall

SpecMetrics == InitMetrics /\ [][NextMetrics]_vars

OrderIds == [parses : {TRUE}, n : 0..(MaxOrders + 1)] \cup [parses : {FALSE}, n : {0}]

IdleBacktest ==
    /\ engine = NewEngine(DefaultCapital)
    /\ pc = "idle"
    /\ strategy = NoStrategy
    /\ price_data = <<>>
    /\ i = 1
    /\ position = <<>>
    /\ result = NoResult
    /\ before = NoBefore
    /\ opt = NoOpt

InitPaper ==
    /\ trader = NewPaperTrader(InitialCash)
    /\ risk = NewRiskController
    /\ ret = [op |-> "init", order_id |-> 0, status |-> "", reason |-> ""]
    /\ checked = NoCheck
    /\ IdleBacktest
    /\ IdleTasks

\* submit_order that books the order before the risk check (mutant for C14)
SubmitOrderBooksFirst(o) ==
    /\ Len(trader.orders) < MaxOrders
    /\ LET risk_check == CheckRisk(risk, o.symbol, o.action, o.quantity, o.price)
           booked == [symbol |-> o.symbol, action |-> o.action,
                      quantity |-> o.quantity, price |-> o.price,
                      order_type |-> o.order_type,
                      status |-> IF risk_check.allowed THEN "pending" ELSE "rejected"]
       IN
       /\ trader' = [trader EXCEPT !.orders = Append(@, booked)]
       /\ ret' = IF risk_check.allowed
                 THEN [op |-> "submit_order", order_id |-> Len(trader.orders) + 1,
                       status |-> "pending", reason |-> ""]
                 ELSE [op |-> "submit_order", order_id |-> 0,
                       status |-> "rejected", reason |-> risk_check.reason]
       /\ UNCHANGED risk
    /\ UNCHANGED <<checked>>
    /\ UNCHANGED btvars
    /\ UNCHANGED tmvars

\* submit_order
SubmitOrder(o) ==
    /\ Len(trader.orders) < MaxOrders
    /\ LET risk_check == CheckRisk(risk, o.symbol, o.action, o.quantity, o.price) IN
       IF ~risk_check.allowed
       THEN /\ ret' = [op |-> "submit_order", order_id |-> 0,
                       status |-> "rejected", reason |-> risk_check.reason]
            /\ UNCHANGED <<trader, risk>>
       ELSE /\ trader' = [trader EXCEPT !.orders =
                             Append(@, [symbol |-> o.symbol, action |-> o.action,
                                        quantity |-> o.quantity, price |-> o.price,
                                        order_type |-> o.order_type, status |-> "pending"])]
            /\ ret' = [op |-> "submit_order", order_id |-> Len(trader.orders) + 1,
                       status |-> "pending", reason |-> ""]
            /\ UNCHANGED risk
    /\ UNCHANGED <<checked>>
    /\ UNCHANGED btvars
    /\ UNCHANGED tmvars

\* cancel_order
CancelOrder(id) ==
    /\ IF id.parses /\ 0 <= id.n - 1 /\ id.n - 1 < Len(trader.orders)
       THEN /\ trader' = [trader EXCEPT !.orders[id.n].status = "cancelled"]
            /\ ret' = [op |-> "cancel_order", order_id |-> 0,
                       status |-> "cancelled", reason |-> ""]
       ELSE /\ trader' = trader
            /\ ret' = [op |-> "cancel_order", order_id |-> 0,
                       status |-> "failed", reason |-> ""]
    /\ UNCHANGED risk
    /\ UNCHANGED <<checked>>
    /\ UNCHANGED btvars
    /\ UNCHANGED tmvars

\* execute_orders
ExecuteOrders(current_prices) ==
    /\ LET ps == ExecuteFrom(PaperState(trader, risk), current_prices, 1) IN
        /\ trader' = ps.trader
        /\ risk' = ps.risk
        /\ ret' = [op |-> "execute_orders", order_id |-> 0,
                   status |-> IF ps.error # "" THEN "raised" ELSE "done",
                   reason |-> ps.error]
    /\ UNCHANGED <<checked>>
    /\ UNCHANGED btvars
    /\ UNCHANGED tmvars

NextPaper ==
    \/ \E o \in OrderInputs : SubmitOrder(o)
    \/ \E id \in OrderIds : CancelOrder(id)
    \/ \E current_prices \in PriceMaps : ExecuteOrders(current_prices)

SpecPaper == InitPaper /\ [][NextPaper]_vars

----------------------------------------------------------------------------
(* RiskController used on its own: its client calls check_risk and           *)
(* update_position in any order.                                             *)

MaxHeld == 2

\* the fills reported to update_position: one share at 100, so that the
\* averages of the positions stay in a finite set
Updates == [symbol : Symbols, action : Actions, quantity : {1}, price : {100}]

InitRisk ==
    /\ risk = NewRiskController
    /\ trader = [cash |-> 0, positions |-> <<>>, orders |-> <<>>, trades |-> <<>>]
    /\ ret = [op |-> "init", order_id |-> 0, status |-> "", reason |-> ""]
    /\ checked = NoCheck
    /\ IdleBacktest
    /\ IdleTasks

\* a check_risk that books the exposure of the order it allows (mutant for C15)
CheckRiskCallReserves(o) ==
    LET risk_check == CheckRisk(risk, o.symbol, o.action, o.quantity, o.price) IN
    /\ ret' = [op |-> "check_risk", order_id |-> 0,
               status |-> IF risk_check.allowed THEN "allowed" ELSE "refused",
               reason |-> risk_check.reason]
    /\ checked' = [args |-> o, verdict |-> risk_check, fresh |-> TRUE]
    /\ risk' = IF risk_check.allowed
               THEN UpdatePosition(risk, o.symbol, o.action, o.quantity, o.price)
               ELSE risk
    /\ UNCHANGED trader
    /\ UNCHANGED btvars
    /\ UNCHANGED tmvars

\* check_risk: no statement of it assigns to a field of the controller
CheckRiskCall(o) ==
    LET risk_check == CheckRisk(risk, o.symbol, o.action, o.quantity, o.price) IN
    /\ ret' = [op |-> "check_risk", order_id |-> 0,
               status |-> IF risk_check.allowed THEN "allowed" ELSE "refused",
               reason |-> risk_check.reason]
    /\ checked' = [args |-> o, verdict |-> risk_check, fresh |-> TRUE]
    /\ UNCHANGED <<trader, risk>>
    /\ UNCHANGED btvars
    /\ UNCHANGED tmvars

\* update_position; a buy is reported only while the quantity held stays
\* within MaxHeld
UpdatePositionCall(u) ==
    /\ u.action = "buy" =>
          (IF u.symbol \in DOMAIN risk.positions THEN risk.positions[u.symbol].quantity ELSE 0)
              + u.quantity <= MaxHeld
    /\ risk' = UpdatePosition(risk, u.symbol, u.action, u.quantity, u.price)
    /\ ret' = [op |-> "update_position", order_id |-> 0, status |-> "", reason |-> ""]
    /\ checked' = [checked EXCEPT !.fresh = FALSE]
    /\ UNCHANGED trader
    /\ UNCHANGED btvars
    /\ UNCHANGED tmvars

NextRisk ==
    \/ \E o \in OrderInputs : CheckRiskCall(o)
    \/ \E u \in Updates : UpdatePositionCall(u)

SpecRisk == InitRisk /\ [][NextRisk]_vars

----------------------------------------------------------------------------
(* check_risk on a controller whose owner has assigned its attributes         *)
(* current_capital and daily_pnl (no method of the controller does).          *)

Capitals == {100000, 90000, 80000}
DailyPnls == {0, -4000, -6000}

\* the orders checked: those of the paper trader and a buy worth 30000, above
\* 25% of every capital
GuardOrders ==
    OrderInputs \cup {OrderInput("A", "buy", [quantity |-> 300, price |-> 100,
                                             order_type |-> "market"])}

InitGuards ==
    /\ \E capital \in Capitals, pnl \in DailyPnls :
          risk = [NewRiskController EXCEPT !.current_capital = capital, !.daily_pnl = pnl]
    /\ trader = [cash |-> 0, positions |-> <<>>, orders |-> <<>>, trades |-> <<>>]
    /\ ret = [op |-> "init", order_id |-> 0, status |-> "", reason |-> ""]
    /\ checked = NoCheck
    /\ IdleBacktest
    /\ IdleTasks

NextGuards ==
    \/ \E o \in GuardOrders : CheckRiskCall(o)
    \/ \E u \in Updates : UpdatePositionCall(u)

SpecGuards == InitGuards /\ [][NextGuards]_vars

----------------------------------------------------------------------------
(* ParameterOptimizer.  A param_grid is a dict in insertion order: a sequence *)
(* of [name, values] with distinct names.  A sharpe_ratio is an integer.      *)

MaxOptBars == 4
MaxResults == 3

\* list(product(*param_values)): every combination, the last list varying fastest
RECURSIVE Product(_)
Product(param_values) ==
    IF param_values = <<>> THEN << <<>> >>
    ELSE LET first == Head(param_values)
             rest  == Product(Tail(param_values))
             Row(x) == [j \in 1..Len(rest) |-> <<x>> \o rest[j]]
             Rows[k \in 0..Len(first)] ==
                 IF k = 0 THEN <<>> ELSE Rows[k - 1] \o Row(first[k])
         IN  Rows[Len(first)]

ParamNames(param_grid) == [k \in 1..Len(param_grid) |-> param_grid[k].name]
ParamValues(param_grid) == [k \in 1..Len(param_grid) |-> param_grid[k].values]

\* dict(zip(param_names, combo))
Zip(param_names, combo) ==
    [n \in {param_names[k] : k \in 1..Len(param_names)} |->
        combo[CHOOSE k \in 1..Len(param_names) : param_names[k] = n]]

\* {**strategy, **params}
Merge(strat, params) ==
    [k \in DOMAIN strat \cup DOMAIN params |->
        IF k \in DOMAIN params THEN params[k] ELSE strat[k]]

\* x["metrics"].get("sharpe_ratio", 0)
SharpeKey(x) == IF "sharpe_ratio" \in DOMAIN x.metrics THEN x.metrics.sharpe_ratio ELSE 0

\* an insertion that puts x before the entries of equal key (mutant for C17)
RECURSIVE InsertedFirst(_, _, _)
InsertedFirst(sorted, x, k) ==
    IF k > Len(sorted) THEN Append(sorted, x)
    ELSE IF SharpeKey(sorted[k]) <= SharpeKey(x)
         THEN SubSeq(sorted, 1, k - 1) \o <<x>> \o SubSeq(sorted, k, Len(sorted))
         ELSE InsertedFirst(sorted, x, k + 1)

\* sorted(..., reverse=True) is stable: x goes behind every entry whose key is
\* greater than or equal to its own
RECURSIVE Inserted(_, _, _)
Inserted(sorted, x, k) ==
    IF k > Len(sorted) THEN Append(sorted, x)
    ELSE IF SharpeKey(sorted[k]) < SharpeKey(x)
         THEN SubSeq(sorted, 1, k - 1) \o <<x>> \o SubSeq(sorted, k, Len(sorted))
         ELSE Inserted(sorted, x, k + 1)

\* sorted(results, key=sharpe_ratio, reverse=True)
RECURSIVE SortedFrom(_, _, _)
SortedFrom(results, k, sorted) ==
    IF k > Len(results) THEN sorted
    ELSE SortedFrom(results, k + 1, Inserted(sorted, results[k], 1))

NoBest == [k \in {} |-> 0]

\* _find_best
FindBest(results) ==
    IF results = <<>> THEN NoBest ELSE SortedFrom(results, 1, <<>>)[1]

\* the state of the loop of grid_search: results, the backtests run so far, the
\* pending exception
GridState == [results |-> <<>>, runs |-> <<>>, error |-> ""]

\* one iteration of the loop of grid_search, lines 54-74
GridIteration(gs, strat, data, param_names, combo) ==
    LET params        == Zip(param_names, combo)
        test_strategy == Merge(strat, params)
        run           == FreshRun(DefaultCapital, test_strategy, data).result
        ran           == [gs EXCEPT !.runs = Append(@, [strategy |-> test_strategy,
                                                       price_data |-> data])]
    IN  IF run.kind = "raised" THEN [ran EXCEPT !.error = run.error]
        ELSE [ran EXCEPT !.results = Append(@, [params |-> params,
                                                metrics |-> run.metrics,
                                                trades_count |-> Len(run.trades)])]

\* the return value of grid_search, lines 76-84
GridOutcome(combinations, gs) ==
    IF gs.error # ""
    THEN [kind |-> "raised", error |-> gs.error, runs |-> gs.runs]
    ELSE [kind |-> "returned", error |-> "", runs |-> gs.runs,
          total_combinations |-> Len(combinations),
          results |-> gs.results,
          best |-> FindBest(gs.results)]

RECURSIVE GridFrom(_, _, _, _, _, _)
GridFrom(gs, strat, data, param_names, combinations, k) ==
    IF k > Len(combinations) \/ gs.error # "" THEN gs
    ELSE GridFrom(GridIteration(gs, strat, data, param_names, combinations[k]),
                  strat, data, param_names, combinations, k + 1)

\* grid_search as one function of its arguments
GridSearchRun(strat, data, param_grid) ==
    LET combinations == Product(ParamValues(param_grid)) IN
    GridOutcome(combinations,
                GridFrom(GridState, strat, data, ParamNames(param_grid), combinations, 1))

\* price_data[a:b] for 0 <= a <= b
Slice(data, a, b) ==
    LET hi == IF b < Len(data) THEN b ELSE Len(data) IN
    IF a >= hi THEN <<>> ELSE SubSeq(data, a + 1, hi)

\* the body of the loop of walk_forward_optimization for the window starting at
\* bar i (0-based), lines 135-159
WalkIteration(ws, strat, data, param_grid, train_size, test_size, start) ==
    LET train_data   == Slice(data, start, start + train_size)
        test_data    == Slice(data, start + train_size, start + train_size + test_size)
        train_result == GridSearchRun(strat, train_data, param_grid)
        trained      == [ws EXCEPT !.runs = @ \o train_result.runs,
                                   !.trains = Append(@, train_data)]
    IN  IF train_result.kind = "raised" THEN [trained EXCEPT !.error = train_result.error]
        ELSE IF "params" \notin DOMAIN train_result.best
             THEN [trained EXCEPT !.error = "KeyError"]
        ELSE LET best_params   == train_result.best.params
                 test_strategy == Merge(strat, best_params)
                 test_result   == FreshRun(DefaultCapital, test_strategy, test_data).result
                 tested        == [trained EXCEPT
                                      !.best_params_list = Append(@, best_params),
                                      !.tests = Append(@, [strategy |-> test_strategy,
                                                           price_data |-> test_data]),
                                      !.runs = Append(@, [strategy |-> test_strategy,
                                                          price_data |-> test_data])]
             IN  IF test_result.kind = "raised"
                 THEN [tested EXCEPT !.error = test_result.error]
                 ELSE [tested EXCEPT !.results =
                          Append(@, [period_start |-> start,
                                     period_end   |-> start + train_size + test_size,
                                     best_params  |-> best_params,
                                     test_metrics |-> test_result.metrics])]

----------------------------------------------------------------------------
(* The optimizer as a process: one call of grid_search, of                   *)
(* walk_forward_optimization or of _find_best, one step per iteration.       *)

OptBars == {Bar("close", 0), Bar("close", 100), Bar("close", 60000)}

OptSeries == SeqsUpTo(OptBars, MaxOptBars)

BaseStrategies == {NoStrategy, [stop_loss |-> 5, take_profit |-> 10]}

Candidates(name, values) == [name |-> name, values |-> values]

\* the grids searched: no key, a key without candidates, one key, two keys
ParamGrids == { <<>>,
                <<Candidates("stop_loss", <<>>)>>,
                <<Candidates("stop_loss", <<5, 10>>)>>,
                <<Candidates("stop_loss", <<5, 10>>), Candidates("take_profit", <<10, 0>>)>>,
                <<Candidates("take_profit", <<10>>), Candidates("stop_loss", <<0, 5, 10>>)>> }

WindowSizes == {1, 2}

\* the results handed to _find_best: the k-th one has params stop_loss = k and
\* a sharpe_ratio of -1, 0 or 1, or metrics without sharpe_ratio
SharpeChoices == {[has |-> FALSE, value |-> 0]} \cup [has : {TRUE}, value : -1..1]

ResultOf(k, choice) ==
    [params       |-> [stop_loss |-> k],
     metrics      |-> IF choice.has THEN [sharpe_ratio |-> choice.value] ELSE NoMetrics,
     trades_count |-> 0]

ResultLists ==
    { [k \in 1..Len(choices) |-> ResultOf(k, choices[k])] :
          choices \in SeqsUpTo(SharpeChoices, MaxResults) }

InitOpt ==
    /\ opt = NoOpt
    /\ trader = [cash |-> 0, positions |-> <<>>, orders |-> <<>>, trades |-> <<>>]
    /\ risk = [initial_capital |-> 0, current_capital |-> 0, daily_pnl |-> 0, positions |-> <<>>]
    /\ ret = [op |-> "init", order_id |-> 0, status |-> "", reason |-> ""]
    /\ checked = NoCheck
    /\ engine = NewEngine(DefaultCapital)
    /\ pc = "idle"
    /\ strategy = NoStrategy
    /\ price_data = <<>>
    /\ i = 1
    /\ position = <<>>
    /\ result = NoResult
    /\ before = NoBefore
    /\ IdleTasks

optframe == <<engine, pc, strategy, price_data, i, position, result, before>>

\* grid_search is called: lines 45-52
GridSearch(strat, data, param_grid) ==
    /\ opt.pc = "idle"
    /\ opt' = [NoOpt EXCEPT
                  !.op = "grid_search", !.pc = "running",
                  !.args = [strategy |-> strat, price_data |-> data, param_grid |-> param_grid],
                  !.combinations = Product(ParamValues(param_grid)),
                  !.k = 1]
    /\ UNCHANGED optframe
    /\ UNCHANGED ptvars
    /\ UNCHANGED tmvars

\* one iteration of the loop of grid_search
GridStep ==
    /\ opt.op = "grid_search" /\ opt.pc = "running"
    /\ opt.k <= Len(opt.combinations)
    /\ \E gs \in {GridIteration([results |-> opt.results, runs |-> opt.runs, error |-> ""],
                                 opt.args.strategy, opt.args.price_data,
                                 ParamNames(opt.args.param_grid), opt.combinations[opt.k])} :
           opt' = [opt EXCEPT !.results = gs.results,
                              !.runs = gs.runs,
                              !.error = gs.error,
                              !.pc = IF gs.error # "" THEN "raised" ELSE "running",
                              !.k = IF gs.error # "" THEN @ ELSE @ + 1]
    /\ UNCHANGED optframe
    /\ UNCHANGED ptvars
    /\ UNCHANGED tmvars

\* grid_search returns
GridReturn ==
    /\ opt.op = "grid_search" /\ opt.pc = "running"
    /\ opt.k > Len(opt.combinations)
    /\ opt' = [opt EXCEPT !.pc = "returned",
                          !.out = [total_combinations |-> Len(opt.combinations),
                                   results |-> opt.results,
                                   best |-> FindBest(opt.results)]]
    /\ UNCHANGED optframe
    /\ UNCHANGED ptvars
    /\ UNCHANGED tmvars

\* walk_forward_optimization is called: lines 131-132
WalkForwardOptimization(strat, data, param_grid, train_size, test_size) ==
    /\ opt.pc = "idle"
    /\ opt' = [NoOpt EXCEPT
                  !.op = "walk_forward_optimization", !.pc = "running",
                  !.args = [strategy |-> strat, price_data |-> data, param_grid |-> param_grid,
                            train_size |-> train_size, test_size |-> test_size],
                  !.out = [trains |-> <<>>, tests |-> <<>>]]
    /\ UNCHANGED optframe
    /\ UNCHANGED ptvars
    /\ UNCHANGED tmvars

\* one iteration of `for i in range(0, len(price_data) - train_size - test_size, test_size)`;
\* opt.out keeps the slices passed to grid_search and to the test backtests (history)
WalkStep ==
    /\ opt.op = "walk_forward_optimization" /\ opt.pc = "running"
    /\ opt.k < Len(opt.args.price_data) - opt.args.train_size - opt.args.test_size
    /\ \E ws \in {WalkIteration([results |-> opt.results, runs |-> opt.runs,
                                  best_params_list |-> opt.best_params_list,
                                  trains |-> opt.out.trains, tests |-> opt.out.tests,
                                  error |-> ""],
                                 opt.args.strategy, opt.args.price_data, opt.args.param_grid,
                                 opt.args.train_size, opt.args.test_size, opt.k)} :
           opt' = [opt EXCEPT !.results = ws.results,
                              !.runs = ws.runs,
                              !.best_params_list = ws.best_params_list,
                              !.out = [trains |-> ws.trains, tests |-> ws.tests],
                              !.error = ws.error,
                              !.pc = IF ws.error # "" THEN "raised" ELSE "running",
                              !.k = IF ws.error # "" THEN @ ELSE @ + opt.args.test_size]
    /\ UNCHANGED optframe
    /\ UNCHANGED ptvars
    /\ UNCHANGED tmvars

\* walk_forward_optimization returns
WalkReturn ==
    /\ opt.op = "walk_forward_optimization" /\ opt.pc = "running"
    /\ opt.k >= Len(opt.args.price_data) - opt.args.train_size - opt.args.test_size
    /\ opt' = [opt EXCEPT !.pc = "returned"]
    /\ UNCHANGED optframe
    /\ UNCHANGED ptvars
    /\ UNCHANGED tmvars

\* _find_best is called on a list of results
FindBestCall(results) ==
    /\ opt.pc = "idle"
    /\ opt' = [NoOpt EXCEPT !.op = "_find_best", !.pc = "returned",
                            !.args = [results |-> results],
                            !.out = [best |-> FindBest(results)]]
    /\ UNCHANGED optframe
    /\ UNCHANGED ptvars
    /\ UNCHANGED tmvars

NextOpt ==
    \/ \E strat \in BaseStrategies, data \in OptSeries, param_grid \in ParamGrids :
          GridSearch(strat, data, param_grid)
    \/ GridStep
    \/ GridReturn
    \/ \E strat \in BaseStrategies, data \in OptSeries, param_grid \in ParamGrids,
          train_size \in WindowSizes, test_size \in WindowSizes :
          WalkForwardOptimization(strat, data, param_grid, train_size, test_size)
    \/ WalkStep
    \/ WalkReturn
    \/ \E results \in ResultLists : FindBestCall(results)

SpecOpt == InitOpt /\ [][NextOpt]_vars

----------------------------------------------------------------------------
(* TaskManager.  A task id is a number: 1..MaxTasks are the 8-character       *)
(* prefixes uuid4 can produce, 0 is an id no task has.  A timestamp is        *)
(* "None" or "now".  The try block of run_task holds no call that raises.     *)

MaxTasks == 2

TaskIds == 1..MaxTasks
UnknownId == 0

TaskNames == {"task"}

Statuses == {"pending", "running", "completed", "failed", "cancelled"}

\* the dict create_task stores (lines 78-88)
NewTask(task_id, name) ==
    [id |-> task_id, name |-> name, status |-> "pending", created_at |-> "now",
     started_at |-> "None", completed_at |-> "None", result |-> "None", error |-> "None"]

\* a task as an earlier process left it in the file, by status
StoredTask(task_id, name, status) ==
    LET task == NewTask(task_id, name) IN
    CASE status = "pending"   -> task
      [] status = "running"   -> [task EXCEPT !.status = status, !.started_at = "now"]
      [] status = "completed" -> [task EXCEPT !.status = status, !.started_at = "now",
                                              !.completed_at = "now", !.result = "done"]
      [] status = "failed"    -> [task EXCEPT !.status = status, !.started_at = "now",
                                              !.error = "error"]
      [] status = "cancelled" -> [task EXCEPT !.status = status, !.completed_at = "now"]

\* the contents db_path can have when the manager is constructed: no file, or
\* one stored task
StoredFiles ==
    {NoTasks} \cup {Put(NoTasks, 1, StoredTask(1, name, status)) :
                        name \in TaskNames, status \in Statuses}

\* _load_tasks
LoadTasks(file) == file

\* _save_tasks
SaveTasks(m) == [m EXCEPT !.file = m.tasks]

\* get_task: <<>> stands for None
GetTask(m, task_id) == IF task_id \in DOMAIN m.tasks THEN <<m.tasks[task_id]>> ELSE <<>>

Called(op, task_id, returned) == [op |-> op, task_id |-> task_id, returned |-> returned]

\* TaskManager(db_path)
InitTasks ==
    /\ \E file \in StoredFiles : tm = [tasks |-> LoadTasks(file), file |-> file]
    /\ called = NoCall
    /\ IdleBacktest
    /\ IdlePaper

\* create_task; task_id is the value uuid4 yields
CreateTask(task_id, name) ==
    /\ task_id \in DOMAIN tm.tasks \/ Cardinality(DOMAIN tm.tasks) < MaxTasks
    /\ tm' = SaveTasks([tm EXCEPT !.tasks = Put(@, task_id, NewTask(task_id, name))])
    /\ called' = Called("create_task", task_id, task_id)
    /\ UNCHANGED btvars
    /\ UNCHANGED ptvars

\* run_task without the status test (mutant for C22)
RunTaskAnyStatus(task_id) ==
    /\ LET task == GetTask(tm, task_id) IN
        IF task = <<>>
        THEN tm' = tm /\ called' = Called("run_task", task_id, FALSE)
        ELSE /\ tm' = SaveTasks([tm EXCEPT !.tasks[task_id] =
                        [@ EXCEPT !.status = "completed", !.started_at = "now",
                                  !.completed_at = "now", !.result = "done"]])
             /\ called' = Called("run_task", task_id, TRUE)
    /\ UNCHANGED btvars
    /\ UNCHANGED ptvars

\* run_task: status running is saved (lines 139-141) and at once replaced by
\* completed (lines 147-150)
RunTask(task_id) ==
    /\ LET task == GetTask(tm, task_id) IN
        IF task = <<>>
        THEN tm' = tm /\ called' = Called("run_task", task_id, FALSE)
        ELSE IF task[1].status \notin {"pending", "failed"}
             THEN tm' = tm /\ called' = Called("run_task", task_id, FALSE)
             ELSE LET running == SaveTasks([tm EXCEPT !.tasks[task_id] =
                                    [@ EXCEPT !.status = "running", !.started_at = "now"]])
                  IN  /\ tm' = SaveTasks([running EXCEPT !.tasks[task_id] =
                                    [@ EXCEPT !.status = "completed", !.completed_at = "now",
                                              !.result = "done"]])
                      /\ called' = Called("run_task", task_id, TRUE)
    /\ UNCHANGED btvars
    /\ UNCHANGED ptvars

\* cancel_task
CancelTask(task_id) ==
    /\ LET task == GetTask(tm, task_id) IN
        IF task = <<>>
        THEN tm' = tm /\ called' = Called("cancel_task", task_id, FALSE)
        ELSE IF task[1].status \notin {"pending", "running"}
             THEN tm' = tm /\ called' = Called("cancel_task", task_id, FALSE)
             ELSE /\ tm' = SaveTasks([tm EXCEPT !.tasks[task_id] =
                                [@ EXCEPT !.status = "cancelled", !.completed_at = "now"]])
                  /\ called' = Called("cancel_task", task_id, TRUE)
    /\ UNCHANGED btvars
    /\ UNCHANGED ptvars

\* delete_task
DeleteTask(task_id) ==
    /\ IF task_id \in DOMAIN tm.tasks
       THEN tm' = SaveTasks([tm EXCEPT !.tasks = Del(@, task_id)])
            /\ called' = Called("delete_task", task_id, TRUE)
       ELSE tm' = tm /\ called' = Called("delete_task", task_id, FALSE)
    /\ UNCHANGED btvars
    /\ UNCHANGED ptvars

NextTasks ==
    \/ \E task_id \in TaskIds, name \in TaskNames : CreateTask(task_id, name)
    \/ \E task_id \in TaskIds \cup {UnknownId} : RunTask(task_id)
    \/ \E task_id \in TaskIds \cup {UnknownId} : CancelTask(task_id)
    \/ \E task_id \in TaskIds \cup {UnknownId} : DeleteTask(task_id)

SpecTasks == InitTasks /\ [][NextTasks]_vars

----------------------------------------------------------------------------
(* Claims about run_backtest *)

Over == pc \in {"returned", "raised"}

Curve == engine.portfolio_value

\* quantity of the open position times the price, 0 when flat
OpenValue(e, price) == IF e.positions # <<>> THEN e.positions[1].quantity * price ELSE 0

PositiveBars(data, n) == Cardinality({k \in 1..n : BarPrice(data[k]) > 0})

\* C1: capital conservation -- the bar processed by a step of the loop, when its
\* price is positive, appends the snapshot cash + quantity of the position open
\* after the bar * that bar's price (0 when flat), also on the bar that opens
\* the position.
C1_CapitalConservation ==
    [][(pc = "running" /\ i <= Len(price_data) /\ BarPrice(price_data[i]) > 0)
        => engine'.portfolio_value =
             Append(Curve, [timestamp |-> i,
                            value |-> engine'.capital
                                      + OpenValue(engine', BarPrice(price_data[i]))])]_vars

AtBar == pc = "running" /\ i <= Len(price_data)

\* C2: one snapshot per bar with a positive price and none for the others --
\* the step of the loop on a bar with close > 0 appends exactly one entry to the
\* curve (also when it opens or closes a position), the step on a bar with
\* close <= 0 leaves the engine as it was, and once the run is over the curve
\* has one entry per positive bar of the series.
C2_OneSnapshotPerBar ==
    [][/\ (AtBar /\ BarPrice(price_data[i]) > 0) =>
            /\ Len(engine'.portfolio_value) = Len(Curve) + 1
            /\ SubSeq(engine'.portfolio_value, 1, Len(Curve)) = Curve
       /\ (AtBar /\ BarPrice(price_data[i]) <= 0) => engine' = engine
       /\ pc' \in {"returned", "raised"} =>
            Len(engine'.portfolio_value) = PositiveBars(price_data', Len(price_data'))]_vars

StopLossScenario ==
    /\ strategy = [stop_loss |-> 5, take_profit |-> 10]
    /\ price_data = <<Bar("close", 100), Bar("close", 100), Bar("close", 94)>>

\* C3: the stop-loss scenario -- closes [100, 100, 94] with stop_loss 0.05 and
\* take_profit 0.10 return the trades buy 500 @ 100 on bar 1 and sell 500 @ 94
\* on bar 3, cash 97000 and total_return -0.03.
C3_StopLossScenario ==
    (StopLossScenario /\ Over) =>
        /\ result.kind = "returned"
        /\ result.trades = << [timestamp |-> 1, action |-> "buy", price |-> 100,
                               quantity |-> 500, commission |-> 0],
                              [timestamp |-> 3, action |-> "sell", price |-> 94,
                               quantity |-> 500, commission |-> 0] >>
        /\ engine.capital = 97000
        /\ result.metrics.total_return.num * 100 = -3 * result.metrics.total_return.den

\* the exit rule as stated, every stop_loss and take_profit taken as given
ExitRuleAsStated(pos, c) ==
    \/ c * 100 <= pos.entry_price * (100 - pos.stop_loss)
    \/ c * 100 >= pos.entry_price * (100 + pos.take_profit)

\* the exit rule with a stop_loss or take_profit of 0 switching its test off
ExitRuleGuarded(pos, c) ==
    \/ pos.stop_loss > 0 /\ c * 100 <= pos.entry_price * (100 - pos.stop_loss)
    \/ pos.take_profit > 0 /\ c * 100 >= pos.entry_price * (100 + pos.take_profit)

\* the bookkeeping of an exit at price c
ExitBooked(c) ==
    /\ engine'.trades = Append(engine.trades,
                               [timestamp |-> i, action |-> "sell", price |-> c,
                                quantity |-> engine.positions[1].quantity,
                                commission |-> 0])
    /\ engine'.capital = engine.capital + c * engine.positions[1].quantity

\* a step of the exit branch on a bar that carries its close c > 0
ExitStepOn(c) ==
    /\ pc = "holding"
    /\ price_data' = <<Bar("close", c)>>

C5_EmptySeries ==
    (price_data = <<>> /\ Over) =>
        /\ result.kind = "returned"
        /\ result.trades = <<>>
        /\ result.portfolio_value = <<>>
        /\ result.metrics = NoMetrics

\* C6: a run that is over with a position still open has returned normally, its
\* last trade is the buy, and final_value is cash + quantity * the last
\* processed close.
C6_OpenAtEnd ==
    (Over /\ engine.positions # <<>>) =>
        /\ result.kind = "returned"
        /\ result.trades # <<>>
        /\ result.trades[Len(result.trades)].action = "buy"
        /\ \E k \in 1..Len(price_data) :
              /\ BarPrice(price_data[k]) > 0
              /\ \A m \in (k + 1)..Len(price_data) : BarPrice(price_data[m]) <= 0
              /\ result.metrics.final_value =
                    engine.capital + OpenValue(engine, BarPrice(price_data[k]))

\* C7: whatever the engine went through before, the outcome of a call -- return
\* value or exception, and the engine state left behind -- is the one a freshly
\* constructed engine gives for the same strategy and series.
C7_ResetAtStart ==
    Over =>
        LET fresh == FreshRun(engine.initial_capital, strategy, price_data) IN
        /\ result = fresh.result
        /\ engine = fresh.engine

\* C7 witness: a call has returned a curve on an engine whose previous call
\* aborted with an open position
C7_Witness ==
    /\ pc = "returned"
    /\ before.kind = "raised"
    /\ before.open
    /\ Len(result.portfolio_value) = 2

----------------------------------------------------------------------------
(* Claims about PaperTrader and RiskController *)

\* C8: cash is never negative, whatever accepted orders are filled.
C8_CashNonNegative == trader.cash >= 0

RatioAdd(a, b) == Reduce(a.num * b.den + b.num * a.den, a.den * b.den)

\* quantity * avg_price of the positions of the symbols in S
RECURSIVE Notional(_, _)
Notional(positions, S) ==
    IF S = {} THEN Zero
    ELSE LET s == CHOOSE x \in S : TRUE
             p == positions[s]
         IN  RatioAdd(Reduce(p.quantity * p.avg_price.num, p.avg_price.den),
                      Notional(positions, S \ {s}))

\* exposure + order value > max_position_pct * current_capital
OverLimit(rc, exposure, value) ==
    (exposure.num + value * exposure.den) * 100
        > rc.max_position_pct * rc.current_capital * exposure.den

LossGuardsClear(rc) ==
    /\ ~(rc.daily_pnl * 100 < -(rc.current_capital * rc.max_daily_loss_pct))
    /\ ~((rc.initial_capital - rc.current_capital) * 100
            >= rc.max_total_loss_pct * rc.initial_capital)

\* the rejection the two exposure guards are stated to give
ExposureRejects(rc, o) ==
    /\ o.action = "buy"
    /\ \/ OverLimit(rc, Notional(rc.positions, DOMAIN rc.positions), o.quantity * o.price)
       \/ OverLimit(rc, Notional(rc.positions, DOMAIN rc.positions \cap {o.symbol}),
                    o.quantity * o.price)

\* C9: with neither loss guard tripped, submit_order's risk check rejects an
\* order exactly when it is a buy and the notional exposure held (in total or
\* for the order's symbol) plus quantity * price exceeds max_position_pct *
\* current_capital; a buy of 2000 on an exposure of 24000 is rejected, a sell never.
C9_ExposureGuards ==
    [][\A o \in OrderInputs :
         (SubmitOrder(o) /\ LossGuardsClear(risk)) =>
            /\ (ret'.status = "rejected") <=> ExposureRejects(risk, o)
            /\ (/\ Notional(risk.positions, DOMAIN risk.positions) = Ratio(24000, 1)
                /\ o.action = "buy"
                /\ o.quantity * o.price = 2000) => ret'.status = "rejected"
            /\ o.action = "sell" => ret'.status # "rejected"]_vars

\* C10: a filled or cancelled order keeps its status in every step, and
\* cancel_order on an order that is not pending returns failure and changes nothing.
C10_StatusMonotone ==
    [][/\ \A k \in 1..Len(trader.orders) :
            trader.orders[k].status \in {"filled", "cancelled"}
                => trader'.orders[k].status = trader.orders[k].status
       /\ \A id \in OrderIds :
            (/\ CancelOrder(id)
             /\ id.parses
             /\ id.n \in 1..Len(trader.orders)
             /\ trader.orders[id.n].status # "pending")
                => (ret'.status = "failed" /\ trader' = trader /\ risk' = risk)]_vars

\* the orders a step turns from pending to filled
FilledBy(k) == trader.orders[k].status = "pending" /\ trader'.orders[k].status = "filled"

\* the trade booked for order k by a step: the fills of one call are booked in
\* the order of the order book
TradeOf(k) ==
    trader'.trades[Len(trader.trades)
                     + Cardinality({m \in 1..k : FilledBy(m)})]

Quoted(order, current_prices) == order.symbol \in DOMAIN current_prices

\* the fill rule as stated: only a quote of the order's symbol is a current price
FillsAsStated(order, current_prices) ==
    \/ order.order_type = "market"
    \/ /\ Quoted(order, current_prices)
       /\ \/ order.action = "buy"  /\ current_prices[order.symbol] <= order.price
          \/ order.action = "sell" /\ current_prices[order.symbol] >= order.price

\* a pending buy limit at 90 whose symbol is quoted at 95 or 100
Uncrossed(order, current_prices) ==
    /\ order.status = "pending"
    /\ order.order_type = "limit" /\ order.action = "buy" /\ order.price = 90
    /\ Quoted(order, current_prices)
    /\ current_prices[order.symbol] \in 95..100

\* the scenario: a buy limit at 90 quoted at 95-100 stays pending, and a call
\* that finds no other pending order changes nothing
NeverCrosses(current_prices) ==
    /\ \A k \in 1..Len(trader.orders) :
          Uncrossed(trader.orders[k], current_prices)
              => trader'.orders[k].status = "pending"
    /\ (\A k \in 1..Len(trader.orders) :
          trader.orders[k].status = "pending" => Uncrossed(trader.orders[k], current_prices))
          => (trader' = trader /\ risk' = risk)

\* C11: in every execute_orders call a pending market order fills,
\* a pending limit order fills exactly when the price quoted for its symbol is
\* <= (buy) or >= (sell) its limit price, every trade is booked at the price
\* quoted for its symbol, and a buy limit at 90 quoted at 95-100 stays pending
\* with cash unchanged.
C11_FillRule ==
    [][\A current_prices \in PriceMaps :
         ExecuteOrders(current_prices) =>
            /\ \A k \in 1..Len(trader.orders) :
                  trader.orders[k].status = "pending" =>
                     /\ FilledBy(k) <=> FillsAsStated(trader.orders[k], current_prices)
                     /\ FilledBy(k) =>
                          /\ Quoted(trader.orders[k], current_prices)
                          /\ TradeOf(k).price = current_prices[trader.orders[k].symbol]
            /\ NeverCrosses(current_prices)]_vars

\* the change of cash (in cents) stated for one trade: commission = p * q * 0.0003,
\* -(p * q + commission) for a buy, +(p * q - commission) for a sell
StatedCashEffect(trade) ==
    LET gross == trade.price * trade.quantity * 100
        fee   == (trade.price * trade.quantity * 3) \div 100
    IN  IF trade.action = "buy" THEN -(gross + fee) ELSE gross - fee

\* the stated effects of the trades k.. of a trade log, added up
RECURSIVE StatedCashEffects(_, _)
StatedCashEffects(trades, k) ==
    IF k > Len(trades) THEN 0
    ELSE StatedCashEffect(trades[k]) + StatedCashEffects(trades, k + 1)

\* C12: every fill of quantity q at price p is booked with commission
\* p * q * 0.0003, and the fills of a call change cash by -(p * q + commission)
\* for each buy and by +(p * q - commission) for each sell.
C12_CashEffect ==
    [][\A current_prices \in PriceMaps :
         ExecuteOrders(current_prices) =>
            /\ \A k \in (Len(trader.trades) + 1)..Len(trader'.trades) :
                  trader'.trades[k].commission * 100
                      = trader'.trades[k].price * trader'.trades[k].quantity * 3
            /\ trader'.cash - trader.cash
                  = StatedCashEffects(trader'.trades, Len(trader.trades) + 1)]_vars

\* update_position applied once for each of the trades k.. of a trade log
RECURSIVE Mirrored(_, _, _)
Mirrored(rc, trades, k) ==
    IF k > Len(trades) THEN rc
    ELSE Mirrored(UpdatePosition(rc, trades[k].symbol, trades[k].action,
                                 trades[k].quantity, trades[k].price),
                  trades, k + 1)

\* C13: after every submit_order, execute_orders and cancel_order call the
\* trader's positions map equals the risk controller's, and the call has
\* applied update_position exactly once for each fill it booked and for
\* nothing else.
C13_DualBookkeeping ==
    [][/\ trader'.positions = risk'.positions
       /\ risk' = Mirrored(risk, trader'.trades, Len(trader.trades) + 1)]_vars

\* what identifies an order: everything but its status
OrderIdentity(order) ==
    [symbol |-> order.symbol, action |-> order.action, quantity |-> order.quantity,
     price |-> order.price, order_type |-> order.order_type]

\* C14: a submission that check_risk disallows returns rejected with the
\* reason and the empty id and leaves the order book, cash, positions, trades
\* and the risk state unchanged; a submission it allows appends one pending
\* order and returns the id order_k with k the number of orders accepted so
\* far; no other call changes the length of the book, and every order of the
\* book keeps its place and its identity, so order_k keeps designating the k-th
\* accepted order.
C14_RejectionShortCircuits ==
    [][/\ \A o \in OrderInputs :
            SubmitOrder(o) =>
               LET risk_check == CheckRisk(risk, o.symbol, o.action, o.quantity, o.price) IN
               /\ ~risk_check.allowed =>
                     /\ ret'.status = "rejected"
                     /\ ret'.reason = risk_check.reason
                     /\ ret'.order_id = 0
                     /\ trader' = trader
                     /\ risk' = risk
               /\ risk_check.allowed =>
                     /\ ret'.status = "pending"
                     /\ ret'.order_id = Len(trader.orders) + 1
                     /\ Len(trader'.orders) = ret'.order_id
                     /\ OrderIdentity(trader'.orders[ret'.order_id]) = o
                     /\ trader'.orders[ret'.order_id].status = "pending"
                     /\ trader'.cash = trader.cash
                     /\ trader'.positions = trader.positions
                     /\ trader'.trades = trader.trades
                     /\ risk' = risk
       /\ ret'.op # "submit_order" => Len(trader'.orders) = Len(trader.orders)
       /\ \A k \in 1..Len(trader.orders) :
             /\ k <= Len(trader'.orders)
             /\ OrderIdentity(trader'.orders[k]) = OrderIdentity(trader.orders[k])]_vars

\* C14 witness: a submission has been rejected by a trader whose first order
\* was accepted as order_1 and filled; the book still holds that one order
C14_Witness ==
    /\ ret.op = "submit_order"
    /\ ret.status = "rejected"
    /\ ret.reason = "exposure"
    /\ Len(trader.orders) = 1
    /\ trader.orders[1].status = "filled"
    /\ Len(trader.trades) = 1

\* C15: a check_risk call leaves the risk state (initial_capital,
\* current_capital, daily_pnl, positions and the limits) as it was, and a call
\* with the arguments of the previous check_risk call, no update_position
\* having been called in between, returns the allowed flag, reason and risk
\* level that call returned.
C15_CheckRiskPure ==
    [][\A o \in OrderInputs :
         CheckRiskCall(o) =>
            /\ risk' = risk
            /\ (checked.fresh /\ checked.args = o) =>
                   /\ checked'.verdict = checked.verdict
                   /\ ret'.status = (IF checked.verdict.allowed THEN "allowed" ELSE "refused")
                   /\ ret'.reason = checked.verdict.reason]_vars

\* C15 witness: check_risk has refused an order it allowed before the position
\* was reported, and the positions are those update_position left
C15_Witness ==
    /\ ret.op = "check_risk"
    /\ ret.status = "refused"
    /\ checked.fresh
    /\ checked.args = OrderInput("A", "buy", SmallLimit)
    /\ checked.verdict = Verdict(FALSE, "exposure", "high")
    /\ risk.positions = [A |-> [quantity |-> 1, avg_price |-> Ratio(100, 1)]]

\* C26: in both ledgers every retained entry has quantity >= 1 (an entry whose
\* quantity is <= 0 is deleted, never kept at zero), whatever non-negative
\* quantities were bought and sold.
C26_PositionQuantities ==
    /\ \A s \in DOMAIN trader.positions : trader.positions[s].quantity >= 1
    /\ \A s \in DOMAIN risk.positions : risk.positions[s].quantity >= 1

\* C27: whatever the paper trader has done, the controller's current_capital
\* is its initial_capital (100000) and its daily_pnl is 0, and no call has
\* returned the daily-loss or the total-loss rejection.
C27_LossFieldsFrozen ==
    /\ risk.initial_capital = RiskCapital
    /\ risk.current_capital = risk.initial_capital
    /\ risk.daily_pnl = 0
    /\ ret.reason \notin {"daily_loss", "total_loss"}

\* the trader has paid out more than its whole starting cash for a position
\* and the order submitted next was rejected by the exposure guard
C27_Witness ==
    /\ trader.cash < 0
    /\ risk.positions # NoPositions
    /\ ret.op = "submit_order"
    /\ ret.status = "rejected"
    /\ ret.reason = "exposure"

\* the quantity of `symbol` filled on the side `action` by trades k..
RECURSIVE FilledQuantity(_, _, _, _)
FilledQuantity(trades, symbol, action, k) ==
    IF k > Len(trades) THEN 0
    ELSE (IF trades[k].symbol = symbol /\ trades[k].action = action
          THEN trades[k].quantity ELSE 0)
         + FilledQuantity(trades, symbol, action, k + 1)

\* C28: for every symbol the total quantity of filled sells never exceeds the
\* total quantity of filled buys.
C28_NoShortSale ==
    \A symbol \in Symbols :
        FilledQuantity(trader.trades, symbol, "sell", 1)
            <= FilledQuantity(trader.trades, symbol, "buy", 1)

\* order k is a pending limit order for whose symbol the call has no quote
UnquotedLimit(k, current_prices) ==
    /\ trader.orders[k].status = "pending"
    /\ trader.orders[k].order_type = "limit"
    /\ ~Quoted(trader.orders[k], current_prices)

\* C29: execute_orders leaves a pending limit order pending when
\* current_prices has no entry for its symbol, and changes neither cash nor
\* positions when every pending order is such an order.
C29_FillsOnlyOnQuote ==
    [][\A current_prices \in PriceMaps :
         ExecuteOrders(current_prices) =>
            /\ \A k \in 1..Len(trader.orders) :
                  UnquotedLimit(k, current_prices) => trader'.orders[k].status = "pending"
            /\ (\A k \in 1..Len(trader.orders) :
                    trader.orders[k].status = "pending" => UnquotedLimit(k, current_prices))
                  => /\ trader'.cash = trader.cash
                     /\ trader'.positions = trader.positions
                     /\ risk'.positions = risk.positions]_vars

\* the four tests of check_risk, each as the code evaluates it
DailyLossHit(rc) == rc.daily_pnl * 100 < -(rc.current_capital * rc.max_daily_loss_pct)

TotalLossHit(rc) ==
    (rc.initial_capital - rc.current_capital) * 100 >= rc.max_total_loss_pct * rc.initial_capital

BuyValue(o) == IF o.action = "buy" THEN o.quantity * o.price ELSE 0

ExposureHit(rc, o) ==
    (GetTotalExposure(rc) + BuyValue(o)) * 100 > rc.max_position_pct * rc.current_capital

ConcentrationHit(rc, o) ==
    (GetPositionValue(rc, o.symbol) + BuyValue(o)) * 100 > rc.max_position_pct * rc.current_capital

\* C25: check_risk returns the rejection of the first violated guard in the
\* order daily loss, total loss, aggregate exposure, per symbol (so the daily
\* loss rejection when the daily-loss and the exposure conditions both hold),
\* and allowed = true with risk level low when none is violated.
C25_GuardOrder ==
    [][\A o \in GuardOrders : CheckRiskCall(o) =>
        LET verdict == checked'.verdict IN
        IF DailyLossHit(risk)
        THEN verdict = Verdict(FALSE, "daily_loss", "critical")
        ELSE IF TotalLossHit(risk)
        THEN verdict = Verdict(FALSE, "total_loss", "critical")
        ELSE IF ExposureHit(risk, o)
        THEN verdict = Verdict(FALSE, "exposure", "high")
        ELSE IF ConcentrationHit(risk, o)
        THEN verdict = Verdict(FALSE, "concentration", "medium")
        ELSE verdict = Verdict(TRUE, "", "low")
      ]_vars

\* the daily-loss rejection has just been returned for an order that also
\* violates the exposure guard, on a controller short of the total-loss limit
C25_Witness ==
    /\ checked.fresh
    /\ checked.verdict.reason = "daily_loss"
    /\ ~TotalLossHit(risk)
    /\ ExposureHit(risk, checked.args)

----------------------------------------------------------------------------
(* Claims about ParameterOptimizer *)

GridOver == opt.op = "grid_search" /\ opt.pc \in {"returned", "raised"}

\* n1 * n2 * ... for the candidate lists j.. of a grid
RECURSIVE Cardinalities(_, _)
Cardinalities(param_grid, j) ==
    IF j > Len(param_grid) THEN 1
    ELSE Len(param_grid[j].values) * Cardinalities(param_grid, j + 1)

\* the k-th combination (k = 0, 1, ...) of the nested iteration over the keys,
\* the first key varying slowest
NestedParams(param_grid, k) ==
    [n \in {param_grid[j].name : j \in 1..Len(param_grid)} |->
        LET j == CHOOSE m \in 1..Len(param_grid) : param_grid[m].name = n
            inner == Cardinalities(param_grid, j + 1)
        IN  param_grid[j].values[((k \div inner) % Len(param_grid[j].values)) + 1]]

\* C16: a grid_search call runs exactly n1 * n2 * ... backtests, the k-th one
\* with the k-th combination of the nested iteration (first key slowest)
\* overriding the same-named keys of strategy_base, on the series passed; and
\* it reports n1 * n2 * ... combinations.
C16_GridExhaustive ==
    GridOver =>
        LET param_grid == opt.args.param_grid
            total == Cardinalities(param_grid, 1)
        IN  /\ Len(opt.runs) = total
            /\ \A k \in 1..Len(opt.runs) :
                  /\ opt.runs[k].strategy
                        = Merge(opt.args.strategy, NestedParams(param_grid, k - 1))
                  /\ opt.runs[k].price_data = opt.args.price_data
            /\ opt.pc = "returned"
            /\ opt.out.total_combinations = total

\* the results among which best was chosen
Chosen == IF opt.op = "_find_best" THEN opt.args.results ELSE opt.out.results

\* C17: the best of a non-empty list of results is the first result of the
\* list whose sharpe_ratio (0 when the metrics have none) is the maximum of the
\* list, in _find_best and in what grid_search returns.
C17_BestIsFirstMax ==
    (opt.op \in {"_find_best", "grid_search"} /\ opt.pc = "returned" /\ Chosen # <<>>) =>
        \E m \in 1..Len(Chosen) :
            /\ opt.out.best = Chosen[m]
            /\ \A k \in 1..Len(Chosen) : SharpeKey(Chosen[k]) <= SharpeKey(Chosen[m])
            /\ \A k \in 1..(m - 1) : SharpeKey(Chosen[k]) < SharpeKey(Chosen[m])

\* C17 witness: of three results with sharpe ratios 0, 1, 1 the second is the best
C17_Witness ==
    /\ opt.op = "_find_best"
    /\ opt.pc = "returned"
    /\ Len(opt.args.results) = 3
    /\ SharpeKey(opt.args.results[1]) = 0
    /\ SharpeKey(opt.args.results[2]) = 1
    /\ SharpeKey(opt.args.results[3]) = 1
    /\ opt.out.best = opt.args.results[2]

\* C18: a grid_search call with an empty param_grid or an empty series returns,
\* with zero combinations, no results and best = {}.
C18_EmptyGridOrSeries ==
    (GridOver /\ (opt.args.param_grid = <<>> \/ opt.args.price_data = <<>>)) =>
        /\ opt.pc = "returned"
        /\ opt.out.total_combinations = 0
        /\ opt.out.results = <<>>
        /\ opt.out.best = NoBest

\* the backtest run last by a step has raised
LastRunRaised ==
    /\ opt'.runs # opt.runs
    /\ LET run == opt'.runs[Len(opt'.runs)] IN
       FreshRun(DefaultCapital, run.strategy, run.price_data).result.kind = "raised"

\* C19: an iteration of grid_search or walk_forward_optimization whose backtest
\* raises records the failed item and leaves the call running, so that the
\* remaining items are evaluated and the call returns.
C19_FailureIsolation ==
    [][(opt.pc = "running" /\ LastRunRaised) =>
           /\ opt'.pc = "running"
           /\ Len(opt'.results) = Len(opt.results) + 1]_vars

\* C20: in a walk_forward_optimization call the k-th iteration (k = 0, 1, ...)
\* hands grid_search the bars [k*test_size, k*test_size + train_size) and runs
\* exactly one backtest on the bars [k*test_size + train_size, k*test_size +
\* train_size + test_size), with the parameters grid_search chose on the
\* training slice merged into strategy_base; the backtests of the call are
\* those of the grid searches on the training slices and these test runs.
C20_WalkForwardWindows ==
    opt.op = "walk_forward_optimization" =>
        LET a == opt.args
            Train(k) == Slice(a.price_data, k * a.test_size, k * a.test_size + a.train_size)
            Test(k)  == Slice(a.price_data, k * a.test_size + a.train_size,
                              k * a.test_size + a.train_size + a.test_size)
        IN  /\ Len(opt.out.tests) = Len(opt.out.trains)
            /\ Len(opt.best_params_list) = Len(opt.out.trains)
            /\ \A k \in 0..(Len(opt.out.trains) - 1) :
                  LET picked == GridSearchRun(a.strategy, Train(k), a.param_grid) IN
                  /\ opt.out.trains[k + 1] = Train(k)
                  /\ Len(Train(k)) = a.train_size
                  /\ Len(Test(k)) = a.test_size
                  /\ picked.kind = "returned"
                  /\ picked.best # NoBest
                  /\ opt.best_params_list[k + 1] = picked.best.params
                  /\ opt.out.tests[k + 1] =
                        [strategy |-> Merge(a.strategy, picked.best.params),
                         price_data |-> Test(k)]

\* the number of windows of train_size + test_size bars, test_size apart,
\* that fit in n bars
FittingWindows(n, train_size, test_size) ==
    IF n >= train_size + test_size
    THEN (n - train_size - test_size) \div test_size + 1
    ELSE 0

\* C30: a walk_forward_optimization call that returns has evaluated every
\* window that fits in the series: floor((N - train_size - test_size) /
\* test_size) + 1 windows when N >= train_size + test_size, none otherwise.
C30_EveryFittingWindow ==
    (opt.op = "walk_forward_optimization" /\ opt.pc = "returned") =>
        Len(opt.results) = FittingWindows(Len(opt.args.price_data),
                                          opt.args.train_size, opt.args.test_size)

----------------------------------------------------------------------------
(* Claims about the entry / exit decision *)

Flat(e) == e.positions = <<>>

\* q = floor(0.5 * cash / p), for p > 0
IsHalfCashQuantity(q, cash, p) == 2 * p * q <= cash /\ cash < 2 * p * (q + 1)

\* C24: the step of the loop on a bar with close p > 0 that starts flat buys
\* floor(0.5 * cash / p) shares at p and takes p * quantity from cash, which
\* stays >= 0; when that quantity is 0 it records no trade, opens no
\* position, leaves cash unchanged and the run goes on to the next bar.
C24_EntrySizing ==
    [][(AtBar /\ Flat(engine) /\ BarPrice(price_data[i]) > 0) =>
        LET p    == BarPrice(price_data[i])
            cash == engine.capital
        IN  IF IsHalfCashQuantity(0, cash, p)
            THEN /\ engine'.trades = engine.trades
                 /\ Flat(engine')
                 /\ engine'.capital = cash
                 /\ pc' = "running" /\ i' = i + 1
            ELSE /\ Len(engine'.trades) = Len(engine.trades) + 1
                 /\ Len(engine'.positions) = 1
                 /\ LET trade == engine'.trades[Len(engine'.trades)] IN
                     /\ trade.action = "buy" /\ trade.price = p
                     /\ trade.quantity >= 1
                     /\ IsHalfCashQuantity(trade.quantity, cash, p)
                     /\ engine'.positions[1].quantity = trade.quantity
                     /\ engine'.positions[1].entry_price = p
                     /\ engine'.capital = cash - p * trade.quantity
                     /\ engine'.capital >= 0
      ]_vars

\* a run whose first bar was too dear for one share and was passed over, and
\* whose second bar bought 500 shares at 100
C24_Witness ==
    /\ price_data = <<Bar("close", 60000), Bar("close", 100)>>
    /\ i = 2
    /\ Len(Curve) = 1
    /\ Len(engine.trades) = 1
    /\ engine.trades[1].quantity = 500
    /\ engine.capital = 50000

\* buy, sell, buy, ... starting with a buy
Alternates(trades) ==
    \A k \in 1..Len(trades) : trades[k].action = IF k % 2 = 1 THEN "buy" ELSE "sell"

\* C23: the engine never holds two positions; a position is opened only on a
\* bar that starts flat and closed only on a bar that starts in position; at
\* most one trade is recorded per bar; the trade log alternates buy, sell,
\* buy, ... starting with a buy.
C23_SinglePosition ==
    [][ /\ Len(engine'.positions) <= 1
        /\ Len(engine'.positions) > Len(engine.positions) => Flat(engine)
        /\ Len(engine'.positions) < Len(engine.positions) => ~Flat(engine)
        /\ Len(engine'.trades) <= Len(engine.trades) + 1
        /\ \A k \in 1..Len(engine.trades) : engine'.trades[k] = engine.trades[k]
        /\ Alternates(engine'.trades)
      ]_vars

\* a position was opened, closed on a later bar and opened again
C23_Witness ==
    /\ pc = "holding"
    /\ Len(engine.trades) = 3
    /\ engine.trades[2].action = "sell"
    /\ engine.trades[2].timestamp > engine.trades[1].timestamp
    /\ engine.trades[3].timestamp > engine.trades[2].timestamp

----------------------------------------------------------------------------
(* Claims about the metrics *)

\* the highest value among the first k snapshots
RunningPeak(curve, k) ==
    CHOOSE v \in {curve[j].value : j \in 1..k} : \A j \in 1..k : curve[j].value <= v

\* (running peak - value) / running peak at snapshot k
DrawdownAt(curve, k) == Ratio(RunningPeak(curve, k) - curve[k].value, RunningPeak(curve, k))

SameRatio(a, b) == a.num * b.den = b.num * a.den

NonDecreasing(curve) == \A k \in 2..Len(curve) : curve[k - 1].value <= curve[k].value

\* C21: for every non-empty curve, max_drawdown lies in [0, 1], is 0 when the
\* curve never decreases, and (where the first value, hence every running
\* peak, is positive) is the largest (running peak - value) / running peak
\* over the snapshots.
C21_DrawdownBound ==
    pc = "measured" /\ Curve # <<>> =>
        LET max_drawdown == result.metrics.max_drawdown IN
        /\ max_drawdown.den > 0
        /\ 0 <= max_drawdown.num /\ max_drawdown.num <= max_drawdown.den
        /\ NonDecreasing(Curve) => max_drawdown.num = 0
        /\ Curve[1].value > 0 =>
              /\ \E k \in 1..Len(Curve) : SameRatio(max_drawdown, DrawdownAt(Curve, k))
              /\ \A k \in 1..Len(Curve) : ~RatioLess(max_drawdown, DrawdownAt(Curve, k))

\* a measured curve that rises to a new peak and then falls below it
C21_Witness ==
    /\ pc = "measured"
    /\ Len(Curve) = 3
    /\ Curve[1].value < Curve[2].value
    /\ Curve[3].value < Curve[2].value
    /\ result.metrics.max_drawdown.num > 0

----------------------------------------------------------------------------
(* Claims about TaskManager *)

StatusOf(m, task_id) == IF task_id \in DOMAIN m.tasks THEN m.tasks[task_id].status ELSE "absent"

\* the call changed task_id to `status` with completed_at set, and no other task
Leaves(task_id, status) ==
    /\ DOMAIN tm'.tasks = DOMAIN tm.tasks
    /\ tm'.tasks[task_id].status = status
    /\ tm'.tasks[task_id].completed_at # "None"
    /\ \A other \in DOMAIN tm.tasks \ {task_id} : tm'.tasks[other] = tm.tasks[other]

\* C22: create_task yields a pending task; run_task returns True and leaves the
\* task completed with completed_at set exactly when the task exists with
\* status pending or failed; cancel_task returns True and leaves it cancelled
\* exactly when it exists with status pending or running; every other call of
\* the two returns False and changes no task, so neither call changes a
\* completed or cancelled task.
C22_TaskTransitions ==
    [][ /\ \A task_id \in TaskIds, name \in TaskNames :
              CreateTask(task_id, name) => StatusOf(tm', called'.returned) = "pending"
        /\ \A task_id \in TaskIds \cup {UnknownId} :
              RunTask(task_id) =>
                  IF StatusOf(tm, task_id) \in {"pending", "failed"}
                  THEN called'.returned = TRUE /\ Leaves(task_id, "completed")
                  ELSE called'.returned = FALSE /\ tm'.tasks = tm.tasks
        /\ \A task_id \in TaskIds \cup {UnknownId} :
              CancelTask(task_id) =>
                  IF StatusOf(tm, task_id) \in {"pending", "running"}
                  THEN called'.returned = TRUE /\ Leaves(task_id, "cancelled")
                  ELSE called'.returned = FALSE /\ tm'.tasks = tm.tasks
        /\ called'.op \in {"run_task", "cancel_task"} =>
              \A task_id \in DOMAIN tm.tasks :
                  tm.tasks[task_id].status \in {"completed", "cancelled"} =>
                      /\ task_id \in DOMAIN tm'.tasks
                      /\ tm'.tasks[task_id] = tm.tasks[task_id]
      ]_vars

\* run_task has just been refused on a completed task while a second task,
\* created and cancelled in this process, stays cancelled
C22_Witness ==
    /\ called = Called("run_task", 1, FALSE)
    /\ StatusOf(tm, 1) = "completed"
    /\ tm.tasks[1].result = "done"
    /\ StatusOf(tm, 2) = "cancelled"

====
